---- MODULE Spec2Model ----
(***************************************************************************)
(* Model of the keyedlit analysis pass (passes/keyedlit/keyedlit.go).      *)
(*                                                                         *)
(* The inspector hands composite-literal nodes, one at a time, to the      *)
(* visitor callback of run.  The model follows one invocation of the       *)
(* callback block by block (pc), with the callback's locals (s, typeName,  *)
(* ii) and the diagnostics it has passed to pass.Reportf so far            *)
(* (reported).  The callback keeps nothing between nodes, so Return puts   *)
(* the model back in its initial state for the next node.                  *)
(*                                                                         *)
(* Identifiers and file names are sequences of one-character strings, so   *)
(* that strings.Contains, strings.HasSuffix and token.IsExported are       *)
(* computed on characters.                                                 *)
(***************************************************************************)
EXTENDS Integers, Sequences, FiniteSets, TLC

VARIABLES strictF, pc, lit, s, typeName, ii, reported

vars == <<strictF, pc, lit, s, typeName, ii, reported>>

(* ---------------------------- bounds ----------------------------------- *)

MaxFields == 2
MaxElts == 2

(* ------------------------- character data ------------------------------ *)

nTimeout == <<"T","i","m","e","o","u","t">>
nKeepAlive == <<"K","e","e","p","A","l","i","v","e">>
nReadTimeout == <<"r","e","a","d","T","i","m","e","o","u","t">>
nRetries == <<"R","e","t","r","i","e","s">>

TestSuffix == <<"_","t","e","s","t",".","g","o">>

UpperLetters ==
  {"A","B","C","D","E","F","G","H","I","J","K","L","M",
   "N","O","P","Q","R","S","T","U","V","W","X","Y","Z"}

(* ------------------------ library functions ---------------------------- *)

\* variant: strings.HasPrefix in place of strings.HasSuffix
HasSuffix_asPrefix(str, suffix) ==
  /\ Len(str) >= Len(suffix)
  /\ SubSeq(str, 1, Len(suffix)) = suffix

\* strings.HasSuffix(str, suffix)
HasSuffix(str, suffix) ==
  /\ Len(str) >= Len(suffix)
  /\ SubSeq(str, Len(str) - Len(suffix) + 1, Len(str)) = suffix

\* strings.Index(str, substr), scanning from 1-based offset i; -1 if absent
RECURSIVE IndexFrom(_, _, _)
IndexFrom(str, substr, i) ==
  IF i + Len(substr) - 1 > Len(str) THEN -1
  ELSE IF SubSeq(str, i, i + Len(substr) - 1) = substr THEN i - 1
  ELSE IndexFrom(str, substr, i + 1)

\* strings.Contains(str, substr)
Contains(str, substr) == IndexFrom(str, substr, 1) >= 0

\* (*types.Var).Exported(): the first character of the name is upper case
Exported(field) == Len(field.Name) > 0 /\ field.Name[1] \in UpperLetters

(* --------------------------- input domain ------------------------------ *)

FieldNames == {nTimeout, nKeepAlive, nReadTimeout, nRetries}
FieldTypes == {"time.Duration", "*time.Duration", "int"}
Fields == [Name : FieldNames, Type : FieldTypes]

\* a struct's fields, in declaration order; Go requires distinct names
FieldSeqs ==
  {fs \in UNION {[1..n -> Fields] : n \in 0..MaxFields} :
     \A i, j \in 1..Len(fs) : i # j => fs[i].Name # fs[j].Name}

\* types.Type values the oracle can hold for a literal, and "nil" for a miss
StructTypes == {[kind |-> "Struct", under |-> "Struct", fields |-> fs] : fs \in FieldSeqs}
NamedStructTypes == {[kind |-> "Named", under |-> "Struct", fields |-> fs] : fs \in FieldSeqs}
OtherTypes ==
  {[kind |-> "Map", under |-> "Map", fields |-> <<>>],
   [kind |-> "Slice", under |-> "Slice", fields |-> <<>>],
   [kind |-> "Named", under |-> "Map", fields |-> <<>>]}
NilType == [kind |-> "nil", under |-> "nil", fields |-> <<>>]
Types == StructTypes \cup NamedStructTypes \cup OtherTypes \cup {NilType}

\* lit.Type: the literal's type expression
\* (Ident: Name; SelectorExpr: X.Sel; a struct type expression; none)
NoExpr == [kind |-> "nil", X |-> "", Sel |-> "", Name |-> ""]
TypeExprs ==
  {[kind |-> "Ident", X |-> "", Sel |-> "", Name |-> "Opts"],
   [kind |-> "SelectorExpr", X |-> "http", Sel |-> "Client", Name |-> ""],
   [kind |-> "StructType", X |-> "", Sel |-> "", Name |-> ""],
   NoExpr}

\* lit.Elts: positional expressions and key/value pairs
KeyNames == {nTimeout, nRetries}
Positional == [kv |-> FALSE, keyIdent |-> FALSE, Name |-> <<>>]
OtherKey == [kv |-> TRUE, keyIdent |-> FALSE, Name |-> <<>>]
IdentKey(n) == [kv |-> TRUE, keyIdent |-> TRUE, Name |-> n]
Elements == {Positional, OtherKey} \cup {IdentKey(n) : n \in KeyNames}
EltSeqs == UNION {[1..n -> Elements] : n \in 0..MaxElts}

\* pass.Fset: the file each position lies in
Positions == 1..3
FsetFilename(p) ==
  CASE p = 1 -> <<"a",".","g","o">>
    [] p = 2 -> <<"a","_","t","e","s","t",".","g","o">>
    [] OTHER -> <<"t","e","s","t",".","g","o">>

Lits == [pos : Positions, Type : TypeExprs, Elts : EltSeqs, typeOf : Types]
NoLit == [pos |-> 0, Type |-> NoExpr, Elts |-> <<>>, typeOf |-> NilType]

(* ------------------------- the pass's helpers -------------------------- *)

\* types.Type.Underlying()
Underlying(t) ==
  IF t.kind = "Named" THEN [kind |-> t.under, under |-> t.under, fields |-> t.fields]
  ELSE t

\* variant: the Timeout branch without the type comparison
mustBeSpecified_noTypeCheck(field) ==
  IF strictF THEN Exported(field)
  ELSE IF Contains(field.Name, nKeepAlive) /\ field.Type = "time.Duration" THEN TRUE
  ELSE IF Contains(field.Name, nTimeout) THEN TRUE
  ELSE FALSE

\* variant: strict mode requires every field, exported or not
mustBeSpecified_strictAll(field) ==
  IF strictF THEN TRUE
  ELSE IF Contains(field.Name, nKeepAlive) /\ field.Type = "time.Duration" THEN TRUE
  ELSE IF Contains(field.Name, nTimeout) /\ field.Type = "time.Duration" THEN TRUE
  ELSE FALSE

\* variant: the strict flag is not consulted
mustBeSpecified_flagIgnored(field) ==
  IF Contains(field.Name, nKeepAlive) /\ field.Type = "time.Duration" THEN TRUE
  ELSE IF Contains(field.Name, nTimeout) /\ field.Type = "time.Duration" THEN TRUE
  ELSE FALSE

mustBeSpecified(field) ==
  IF strictF THEN Exported(field)
  ELSE IF Contains(field.Name, nKeepAlive) /\ field.Type = "time.Duration" THEN TRUE
  ELSE IF Contains(field.Name, nTimeout) /\ field.Type = "time.Duration" THEN TRUE
  ELSE FALSE

\* variant: without the isKeyedLiteral test after the loop
RECURSIVE keyedScan_vacuous(_, _, _)
keyedScan_vacuous(elts, i, isKeyedLiteral) ==
  IF i > Len(elts) THEN "keyed"
  ELSE IF ~elts[i].kv THEN "reject"
  ELSE keyedScan_vacuous(elts, i + 1, TRUE)

\* variant: only the first element decides
keyedScan_firstOnly(elts, i, isKeyedLiteral) ==
  IF i > Len(elts) THEN "reject"
  ELSE IF ~elts[i].kv THEN "reject"
  ELSE "keyed"

\* the scan of lit.Elts (lines 86-98): "reject", or "keyed"
RECURSIVE keyedScan(_, _, _)
keyedScan(elts, i, isKeyedLiteral) ==
  IF i > Len(elts) THEN (IF isKeyedLiteral THEN "keyed" ELSE "reject")
  ELSE IF ~elts[i].kv THEN "reject"
  ELSE keyedScan(elts, i + 1, TRUE)

\* the inner loop over lit.Elts (lines 104-116): "yes", "no", or "panic" when
\* the assertion el.(*ast.KeyValueExpr) meets a positional element
RECURSIVE fieldIsSpecified(_, _, _)
fieldIsSpecified(elts, i, name) ==
  IF i > Len(elts) THEN "no"
  ELSE IF ~elts[i].kv THEN "panic"
  ELSE IF ~elts[i].keyIdent THEN fieldIsSpecified(elts, i + 1, name)
  ELSE IF elts[i].Name = name THEN "yes"
  ELSE fieldIsSpecified(elts, i + 1, name)

\* pass.Reportf(lit.Pos(), "unspecified field %s of %s", field.Name(), typeName)
Reportf(pos, name, tname) ==
  [pos |-> pos, msg |-> <<"unspecified field ", name, " of ", tname>>]

(* ------------------------------ actions -------------------------------- *)

Init ==
  /\ strictF \in BOOLEAN
  /\ pc = "idle"
  /\ lit = NoLit
  /\ s = NilType
  /\ typeName = ""
  /\ ii = 0
  /\ reported = <<>>

\* inspect.Preorder calls the visitor with the next composite literal
Visit ==
  /\ pc = "idle"
  /\ \E n \in Lits : lit' = n
  /\ pc' = "skiptests"
  /\ UNCHANGED <<strictF, s, typeName, ii, reported>>

\* lines 64-67
SkipTests ==
  /\ pc = "skiptests"
  /\ pc' = IF HasSuffix(FsetFilename(lit.pos), TestSuffix) THEN "return" ELSE "typeof"
  /\ UNCHANGED <<strictF, lit, s, typeName, ii, reported>>

\* variant: without the test that the underlying type is a struct
ResolveType_noStructTest ==
  /\ pc = "typeof"
  /\ IF lit.typeOf.kind = "nil"
       THEN pc' = "panicked" /\ s' = s
       ELSE pc' = "typename" /\ s' = Underlying(lit.typeOf)
  /\ UNCHANGED <<strictF, lit, typeName, ii, reported>>

\* lines 68-75: TypeOf(lit) is nil on an oracle miss and .Underlying() on the
\* nil interface panics
ResolveType ==
  /\ pc = "typeof"
  /\ IF lit.typeOf.kind = "nil"
       THEN pc' = "panicked" /\ s' = s
       ELSE LET t == Underlying(lit.typeOf) IN
            IF t.kind # "Struct"
              THEN pc' = "return" /\ s' = s
              ELSE pc' = "typename" /\ s' = t
  /\ UNCHANGED <<strictF, lit, typeName, ii, reported>>

\* variant: a selector gives its package qualifier
TypeName_qualifier ==
  /\ pc = "typename"
  /\ CASE lit.Type.kind = "SelectorExpr" -> typeName' = lit.Type.X /\ pc' = "keyed"
       [] lit.Type.kind = "Ident" -> typeName' = lit.Type.Name /\ pc' = "keyed"
       [] OTHER -> typeName' = typeName /\ pc' = "return"
  /\ UNCHANGED <<strictF, lit, s, ii, reported>>

\* lines 76-84
TypeName ==
  /\ pc = "typename"
  /\ CASE lit.Type.kind = "SelectorExpr" -> typeName' = lit.Type.Sel /\ pc' = "keyed"
       [] lit.Type.kind = "Ident" -> typeName' = lit.Type.Name /\ pc' = "keyed"
       [] OTHER -> typeName' = typeName /\ pc' = "return"
  /\ UNCHANGED <<strictF, lit, s, ii, reported>>

\* lines 85-98
KeyedScan ==
  /\ pc = "keyed"
  /\ IF keyedScan(lit.Elts, 1, FALSE) = "keyed"
       THEN pc' = "fields" /\ ii' = 0
       ELSE pc' = "return" /\ ii' = ii
  /\ UNCHANGED <<strictF, lit, s, typeName, reported>>

\* variant: a new diagnostic is put before the earlier ones
FieldStep_prepend ==
  /\ pc = "fields"
  /\ IF ii >= Len(s.fields)
       THEN pc' = "return" /\ UNCHANGED <<ii, reported>>
       ELSE LET field == s.fields[ii + 1] IN
            IF mustBeSpecified(field)
              THEN LET r == fieldIsSpecified(lit.Elts, 1, field.Name) IN
                   IF r = "panic"
                     THEN pc' = "panicked" /\ UNCHANGED <<ii, reported>>
                     ELSE /\ reported' = IF r = "no"
                                           THEN <<Reportf(lit.pos, field.Name, typeName)>> \o reported
                                           ELSE reported
                          /\ ii' = ii + 1
                          /\ pc' = pc
              ELSE ii' = ii + 1 /\ pc' = pc /\ reported' = reported
  /\ UNCHANGED <<strictF, lit, s, typeName>>

\* lines 101-121: one iteration of the loop over the struct's fields
FieldStep ==
  /\ pc = "fields"
  /\ IF ii >= Len(s.fields)
       THEN pc' = "return" /\ UNCHANGED <<ii, reported>>
       ELSE LET field == s.fields[ii + 1] IN
            IF mustBeSpecified(field)
              THEN LET r == fieldIsSpecified(lit.Elts, 1, field.Name) IN
                   IF r = "panic"
                     THEN pc' = "panicked" /\ UNCHANGED <<ii, reported>>
                     ELSE /\ reported' = IF r = "no"
                                           THEN Append(reported, Reportf(lit.pos, field.Name, typeName))
                                           ELSE reported
                          /\ ii' = ii + 1
                          /\ pc' = pc
              ELSE ii' = ii + 1 /\ pc' = pc /\ reported' = reported
  /\ UNCHANGED <<strictF, lit, s, typeName>>

\* the callback returns; its locals die and the inspector moves on
Return ==
  /\ pc = "return"
  /\ pc' = "idle"
  /\ lit' = NoLit
  /\ s' = NilType
  /\ typeName' = ""
  /\ ii' = 0
  /\ reported' = <<>>
  /\ UNCHANGED strictF

Next ==
  \/ Visit
  \/ SkipTests
  \/ ResolveType
  \/ TypeName
  \/ KeyedScan
  \/ FieldStep
  \/ Return

Spec == Init /\ [][Next]_vars

TypeOK ==
  /\ strictF \in BOOLEAN
  /\ pc \in {"idle", "skiptests", "typeof", "typename", "keyed", "fields", "return", "panicked"}
  /\ lit \in Lits \cup {NoLit}
  /\ ii \in 0..(MaxFields + 1)
  /\ \A k \in 1..Len(reported) : reported[k].pos \in Positions

(* ------------------- vocabulary of the properties ---------------------- *)
(* Stated on the literal itself, not through the operators of the pass.    *)

\* the literal's file name is some prefix followed by "_test.go"
InTestFile(l) ==
  LET fn == FsetFilename(l.pos) IN
  \E k \in 0..Len(fn) : fn = SubSeq(fn, 1, k) \o TestSuffix

\* sub occurs in name as a contiguous run of characters
NameHas(name, sub) ==
  \E i \in 1..Len(name) : \E j \in i..Len(name) : SubSeq(name, i, j) = sub

IsUpperInitial(name) == name # <<>> /\ Head(name) \in UpperLetters

TimeoutLike(f) ==
  /\ NameHas(f.Name, nTimeout) \/ NameHas(f.Name, nKeepAlive)
  /\ f.Type = "time.Duration"

Required(f) == IF strictF THEN IsUpperInitial(f.Name) ELSE TimeoutLike(f)

IsStructLit(l) == l.typeOf.kind # "nil" /\ l.typeOf.under = "Struct"
HasTypeName(l) == l.Type.kind \in {"Ident", "SelectorExpr"}
HasPositional(l) == \E k \in 1..Len(l.Elts) : ~l.Elts[k].kv

\* identifier keys of the literal
KeySet(l) ==
  {l.Elts[k].Name : k \in {k \in 1..Len(l.Elts) : l.Elts[k].kv /\ l.Elts[k].keyIdent}}

\* a literal the pass analyses: a non-empty, fully keyed struct literal with
\* a derivable type name, outside test files
Analysed(l) ==
  /\ l # NoLit
  /\ ~InTestFile(l)
  /\ IsStructLit(l)
  /\ HasTypeName(l)
  /\ ~HasPositional(l)
  /\ Len(l.Elts) > 0

\* number of diagnostics of the current literal that name the field
Count(name) == Cardinality({k \in 1..Len(reported) : reported[k].msg[2] = name})

FieldsOf(l) == {l.typeOf.fields[k] : k \in 1..Len(l.typeOf.fields)}

Missing(l, f) == f.Name \notin KeySet(l)

Finished == pc = "return"

\* the diagnostics expected for the first n fields of the literal's struct
RECURSIVE Expected(_, _)
Expected(l, n) ==
  IF n = 0 THEN <<>>
  ELSE LET f == l.typeOf.fields[n]
           tn == IF l.Type.kind = "Ident" THEN l.Type.Name ELSE l.Type.Sel
       IN  IF Required(f) /\ Missing(l, f)
             THEN Append(Expected(l, n - 1),
                         [pos |-> l.pos,
                          msg |-> <<"unspecified field ", f.Name, " of ", tn>>])
             ELSE Expected(l, n - 1)

(* ------------------------------ claims --------------------------------- *)

C2_EmptyLiteralReported ==
  (Finished /\ ~InTestFile(lit) /\ IsStructLit(lit) /\ HasTypeName(lit) /\ lit.Elts = <<>>) =>
    \A f \in FieldsOf(lit) : Required(f) => Count(f.Name) = 1

\* C2 (amended): a struct literal with no elements is not taken for a keyed
\* literal; it is skipped and no diagnostic is emitted for it in either mode.
C2_EmptyLiteralSkipped ==
  (lit # NoLit /\ lit.Elts = <<>>) => (reported = <<>> /\ pc # "fields")

C2_Witness ==
  /\ Finished /\ ~InTestFile(lit) /\ IsStructLit(lit) /\ lit.Elts = <<>>
  /\ lit.Type.kind = "Ident"
  /\ lit.typeOf.fields = <<[Name |-> nTimeout, Type |-> "time.Duration"],
                           [Name |-> nRetries, Type |-> "int"]>>
  /\ reported = <<>>

\* C3 (as stated): no diagnostic names an unexported field, in any mode.
C3_UnexportedNeverReported ==
  \A k \in 1..Len(reported) : IsUpperInitial(reported[k].msg[2])

\* C3 (amended): in strict mode no diagnostic names an unexported field; in
\* default mode an unexported field of an analysed literal is reported
\* exactly when it is a time.Duration field whose name contains Timeout or
\* KeepAlive and its name is not among the keys.
C3_UnexportedStrictOnly ==
  /\ strictF => \A k \in 1..Len(reported) : IsUpperInitial(reported[k].msg[2])
  /\ (~strictF /\ Finished /\ Analysed(lit)) =>
       \A f \in FieldsOf(lit) :
         ~IsUpperInitial(f.Name) =>
           (Count(f.Name) = 1 <=> (TimeoutLike(f) /\ Missing(lit, f)))

C3_Witness ==
  /\ strictF /\ Finished /\ Analysed(lit)
  /\ \E f \in FieldsOf(lit) :
       f.Name = nReadTimeout /\ f.Type = "time.Duration" /\ Missing(lit, f)
  /\ Len(reported) = 1
  /\ Count(nReadTimeout) = 0

\* C4: in strict mode, for an analysed literal, every exported field gets
\* exactly one diagnostic when its name is not among the keys and none when
\* it is, whatever its name and type.
C4_StrictMode ==
  (strictF /\ Finished /\ Analysed(lit)) =>
    \A f \in FieldsOf(lit) :
      IsUpperInitial(f.Name) => Count(f.Name) = IF Missing(lit, f) THEN 1 ELSE 0

C4_Witness ==
  /\ strictF /\ Finished /\ Analysed(lit)
  /\ lit.Elts = <<IdentKey(nRetries)>>
  /\ lit.typeOf.fields = <<[Name |-> nTimeout, Type |-> "int"],
                           [Name |-> nRetries, Type |-> "int"]>>
  /\ Count(nTimeout) = 1 /\ Count(nRetries) = 0

\* C5: a literal with a positional element, at any place among its elements,
\* never reaches the field loop and never gets a diagnostic.
C5_PositionalSkipped ==
  (lit # NoLit /\ IsStructLit(lit) /\ HasPositional(lit)) =>
    (reported = <<>> /\ pc \notin {"fields", "panicked"})

C5_Witness ==
  /\ Finished /\ ~InTestFile(lit) /\ IsStructLit(lit) /\ HasTypeName(lit)
  /\ lit.Elts = <<IdentKey(nRetries), Positional>>
  /\ \E f \in FieldsOf(lit) : f.Name = nTimeout /\ f.Type = "time.Duration"
  /\ reported = <<>>

\* C6: the visitor never ends in a fatal condition, whatever node it is given.
C6_NeverFatal == pc # "panicked"

\* C7: a literal in a file whose name ends in "_test.go" is left at the first
\* test and gets no diagnostic; a literal in any other file that is otherwise
\* analysed and lacks a required field does get one.
C7_TestFilesExcluded ==
  /\ (lit # NoLit /\ InTestFile(lit)) =>
       (reported = <<>> /\ pc \in {"skiptests", "return"})
  /\ (Finished /\ Analysed(lit)
        /\ \E f \in FieldsOf(lit) : Required(f) /\ Missing(lit, f)) =>
       reported # <<>>

C7_Witness ==
  /\ Finished /\ InTestFile(lit)
  /\ IsStructLit(lit) /\ lit.Type.kind = "Ident"
  /\ lit.Elts = <<IdentKey(nRetries)>>
  /\ \E f \in FieldsOf(lit) : f.Name = nTimeout /\ f.Type = "time.Duration"
  /\ reported = <<>>

\* C8: the diagnostics of an analysed literal are, in the struct's
\* declaration order, those of the required fields that are not among the
\* keys, each with the message "unspecified field <field> of <type name>" at
\* the literal's position; during the field loop they are those of the
\* fields already passed.
C8_DeclarationOrder ==
  /\ (Finished /\ Analysed(lit)) => reported = Expected(lit, Len(lit.typeOf.fields))
  /\ (pc = "fields" /\ ii <= Len(lit.typeOf.fields)) => reported = Expected(lit, ii)

C8_Witness ==
  /\ Finished /\ Analysed(lit)
  /\ Len(reported) = 2
  /\ reported[1].msg[2] = lit.typeOf.fields[1].Name
  /\ reported[2].msg[2] = lit.typeOf.fields[2].Name
  /\ reported[1].pos = lit.pos /\ reported[2].pos = lit.pos

\* C9: a literal whose underlying type is not a struct goes no further than
\* the type test and gets no diagnostic, whatever its keys.
C9_NonStructSkipped ==
  (lit # NoLit /\ lit.typeOf.kind # "nil" /\ lit.typeOf.under # "Struct") =>
    (reported = <<>> /\ pc \in {"skiptests", "typeof", "return"})

C9_Witness ==
  /\ Finished /\ ~InTestFile(lit)
  /\ lit.typeOf.kind = "Named" /\ lit.typeOf.under = "Map"
  /\ lit.Type.kind = "Ident"
  /\ lit.Elts = <<IdentKey(nTimeout)>>
  /\ reported = <<>>

\* C10: the type name in a diagnostic is the identifier of an identifier type
\* expression or the selected identifier of a selector; a literal with any
\* other type expression, or none, goes no further and gets no diagnostic.
C10_TypeName ==
  /\ \A k \in 1..Len(reported) :
       \/ lit.Type.kind = "Ident" /\ reported[k].msg[4] = lit.Type.Name
       \/ lit.Type.kind = "SelectorExpr" /\ reported[k].msg[4] = lit.Type.Sel
  /\ (lit # NoLit /\ ~HasTypeName(lit)) =>
       (reported = <<>> /\ pc \notin {"keyed", "fields"})

C10_Witness ==
  /\ Finished /\ Analysed(lit)
  /\ lit.Type.kind = "SelectorExpr"
  /\ Len(reported) > 0
  /\ reported[1].msg[4] = "Client"
====
